---------------------------- MODULE Spec2Model ----------------------------
(***************************************************************************)
(* Model of Water_Monitoring_System_code.ino: setup() followed by the      *)
(* endless loop() of the pet water bowl monitor.  The loop is split at the *)
(* places where it reads millis() or blocks in delay(), so that the clock  *)
(* can advance between the reads of one iteration.                         *)
(***************************************************************************)
EXTENDS Integers, Sequences, FiniteSets

(* ------------------------------------------------------------------ *)
(* Program constants                                                   *)
(* ------------------------------------------------------------------ *)
SYNC_INTERVAL == 600000
ten_mins == 600000
FSR_empty_bowl == 940
CooldownDelay == 2000
BlinkDelay == 500
WhiteDelay == 10000
NumNames == 100

LOW == "LOW"
HIGH == "HIGH"

(* ------------------------------------------------------------------ *)
(* Bounds of the model                                                 *)
(* ------------------------------------------------------------------ *)
MaxIter == 4
MaxPrefix == 10
BootEpoch == 1700000000

(* ------------------------------------------------------------------ *)
(* unsigned long / uint32_t: a 32-bit value is kept as two 16-bit      *)
(* halves, every operation is modulo 2^32.                             *)
(* ------------------------------------------------------------------ *)
W16 == 2^16

U32(n) == [hi |-> (n \div W16) % W16, lo |-> n % W16]

Plus32(x, n) ==
  LET s == x.lo + (n % W16)
  IN  [hi |-> (x.hi + (n \div W16) + (s \div W16)) % W16, lo |-> s % W16]

Minus32(x, y) ==
  LET l == x.lo - y.lo
      borrow == IF l < 0 THEN 1 ELSE 0
  IN  [hi |-> (x.hi - y.hi - borrow + 2 * W16) % W16, lo |-> (l + W16) % W16]

Less32(x, y) == x.hi < y.hi \/ (x.hi = y.hi /\ x.lo < y.lo)

(* whole seconds in a millisecond count: floor(x / 1000) *)
Seconds(x) == x.hi * 65 + (x.hi * 536 + x.lo) \div 1000

(* ------------------------------------------------------------------ *)
(* Environment: what the sensors, the clock and the card can deliver.  *)
(* fsrLevel and motionLevel are the levels the two pins had when the   *)
(* program last sampled them; each read draws the level afresh.        *)
(* dhtTemp and dhtHum are what the DHT22 answers in this run: a value, *)
(* or NaN from a sensor that is broken or not connected.               *)
(* ------------------------------------------------------------------ *)
NaN == -1000
Elapsed == {0, ten_mins \div 2}
(* setup() may also end just short of half a period, which lets a tick *)
(* fall due while an indicator effect holds the loop                   *)
SetupElapsed == Elapsed \cup {ten_mins \div 2 - BlinkDelay}
(* how long before the counter wraps the latest tick started, for the  *)
(* runs that begin near 2^32 ms of uptime                              *)
WrapBacks == {2 * ten_mins, ten_mins + ten_mins \div 2, ten_mins}
FSRLevels == {FSR_empty_bowl, FSR_empty_bowl + 1}
TempReadings == {NaN, 21}
HumReadings == {NaN, 55}
StaleStamps == {0}

AllNames == 0 .. (NumNames - 1)
NoFile == -1

CardSets == {{}, AllNames}
CardSetsWide ==
  { 0 .. (k - 1) : k \in 0 .. MaxPrefix } \cup
  { AllNames \ {h} : h \in {0, 37, NumNames - 1} } \cup
  { {1}, {0, 2}, 1 .. (NumNames - 1), AllNames }

(* ------------------------------------------------------------------ *)
(* Lines of the log file                                               *)
(* ------------------------------------------------------------------ *)
(* a line is tagged with what printed it: the header of line 77, the    *)
(* message of line 186, or a record of lines 90-121                     *)
Header ==
  [kind |-> "header",
   body |-> <<"millis", "stamp", "datetime", "temp_(C)", "humidity%", "fsr_reading">>]
RTCFailedLine == [kind |-> "text", body |-> <<"RTC failed">>]

Calendar(t) ==
  [day |-> t \div 86400, hour |-> (t \div 3600) % 24,
   minute |-> (t \div 60) % 60, second |-> t % 60]

Field(src, val) == [src |-> src, val |-> val]

VARIABLES
  sdOK, rtcOK, cardFiles, dhtTemp, dhtHum, fsrLevel, motionLevel, clock,
  pc, syncTime, startMillis, currentMillis,
  FSRValue,
  logfile, log, durable, shown,
  iterations, ticked, reacted, effects, prevTick, pendingCooldown

(* sdOK, rtcOK: whether SD.begin and RTC.begin succeed; cardFiles: the  *)
(* sequence numbers of the MLOGnn.CSV names on the card at boot.       *)
(* clock: the millis() counter.  pc: the place in setup()/loop().      *)
(* logfile: the number of the open file or NoFile; log: the lines      *)
(* printed to it; durable: how many of them a flush has written out.   *)
(* shown: what the pixel strip shows.                                  *)
(* History of the current run, read by the properties only:            *)
(* iterations counts loop() calls; ticked, reacted and effects say     *)
(* what the current iteration has done; prevTick holds the             *)
(* currentMillis of the latest tick; pendingCooldown is set by an      *)
(* append and cleared when delay(2000) returns.                        *)
hw == <<sdOK, rtcOK, cardFiles, dhtTemp, dhtHum>>
env == <<fsrLevel, motionLevel>>
timers == <<syncTime, startMillis, currentMillis>>
readings == <<FSRValue>>
sink == <<logfile, log, durable>>
ghost == <<iterations, ticked, reacted, effects, prevTick, pendingCooldown>>
vars == <<hw, env, clock, pc, timers, readings, sink, shown, ghost>>

(* ------------------------------------------------------------------ *)
(* SD library as the sketch uses it                                    *)
(* ------------------------------------------------------------------ *)
SDexists(sd, files, i) == sd /\ i \in files
SDopen(sd, i) == IF sd THEN i ELSE NoFile

RECURSIVE Probe(_, _, _)
Probe(i, sd, files) ==
  IF i >= NumNames THEN NoFile
  ELSE IF ~SDexists(sd, files, i) THEN SDopen(sd, i)
  ELSE Probe(i + 1, sd, files)

createFileFromOne(sd, files) == Probe(1, sd, files)
createFile(sd, files) == Probe(0, sd, files)

(* logfile.println(line): nothing is written through a handle that is not open *)
Println(f, lines, line) == IF f = NoFile THEN lines ELSE Append(lines, line)

(* initRTC(): a clock that does not answer is reported into the log file *)
initRTC(f, ok, lines) == IF ~ok THEN Println(f, lines, RTCFailedLine) ELSE lines

(* RTC.now().unixtime() *)
RTCStamps(ok, t) == IF ok THEN {BootEpoch + Seconds(t)} ELSE StaleStamps

(* the record lines 90-121 print, field by field: each field keeps the *)
(* expression that was printed and its value                           *)
Record(m, stamp, t, h, p) ==
  [kind |-> "record",
   body |-> << Field("m", m), Field("now.unixtime()", stamp),
               Field("now", Calendar(stamp)),
               Field("tempValue", t), Field("humValue", h), Field("FSRValue", p) >>]

(* lines 84 and 124: unsigned elapsed time against a period *)
DueNoWrap(now, last, period) == ~Less32(now, Plus32(last, period))
Due(now, last, period) == ~Less32(Minus32(now, last), U32(period))

(* lines 135-142: which effect the reactive check selects *)
SelectEffectStrict(p, m) ==
  IF p < FSR_empty_bowl THEN "alert"
  ELSE IF m = HIGH THEN "presence"
  ELSE "none"
SelectEffect(p, m) ==
  IF p <= FSR_empty_bowl THEN "alert"
  ELSE IF m = HIGH THEN "presence"
  ELSE "none"

(* ------------------------------------------------------------------ *)
(* Initial states: the globals as the sketch declares them             *)
(* ------------------------------------------------------------------ *)
InitWith(cards) ==
  /\ sdOK \in BOOLEAN /\ rtcOK \in BOOLEAN /\ cardFiles \in cards
  /\ (~sdOK => cardFiles = {})
  /\ dhtTemp \in TempReadings /\ dhtHum \in HumReadings
  /\ fsrLevel = 0 /\ motionLevel = LOW
  /\ clock = U32(0)
  /\ pc = "setup"
  /\ syncTime = U32(0) /\ startMillis = U32(0) /\ currentMillis = U32(0)
  /\ FSRValue = 0
  /\ logfile = NoFile /\ log = <<>> /\ durable = 0
  /\ shown = "off"
  /\ iterations = 0 /\ ticked = FALSE /\ reacted = FALSE /\ effects = <<>>
  /\ prevTick = <<>> /\ pendingCooldown = FALSE

Init == InitWith(CardSets)
InitFiles == InitWith(CardSetsWide)

(* The sketch after about 49.7 days: the counter is about to wrap.  The *)
(* card never initialised, so nothing was ever printed; the iteration   *)
(* just ended ran a tick that started at t0, flushed at once and found  *)
(* nothing to signal.                                                   *)
InitWrap ==
  \E back \in WrapBacks :
    LET t0 == Minus32(U32(0), U32(back))
    IN  /\ sdOK = FALSE /\ rtcOK \in BOOLEAN /\ cardFiles = {}
        /\ dhtTemp \in TempReadings /\ dhtHum \in HumReadings
        /\ fsrLevel = FSR_empty_bowl + 1 /\ motionLevel = LOW
        /\ clock = Plus32(t0, CooldownDelay)
        /\ pc = "loop"
        /\ syncTime = t0 /\ startMillis = t0 /\ currentMillis = t0
        /\ FSRValue = fsrLevel
        /\ logfile = NoFile /\ log = <<>> /\ durable = 0
        /\ shown = "off"
        /\ iterations = 0 /\ ticked = TRUE /\ reacted = TRUE /\ effects = <<>>
        /\ prevTick = <<t0>> /\ pendingCooldown = FALSE

(* ------------------------------------------------------------------ *)
(* setup(), lines 54-78                                                *)
(* ------------------------------------------------------------------ *)
SetupHalting ==
  /\ pc = "setup"
  /\ \E d \in SetupElapsed : clock' = Plus32(clock, d)
  /\ shown' = "off"
  /\ logfile' = createFile(sdOK, cardFiles)
  /\ log' = Println(logfile', initRTC(logfile', rtcOK, log), Header)
  /\ pc' = IF logfile' = NoFile \/ ~rtcOK THEN "halt" ELSE "loop"
  /\ UNCHANGED <<hw, env, timers, readings, durable, ghost>>

Setup ==
  /\ pc = "setup"
  /\ \E d \in SetupElapsed : clock' = Plus32(clock, d)
  /\ shown' = "off"
  /\ logfile' = createFile(sdOK, cardFiles)
  /\ log' = Println(logfile', initRTC(logfile', rtcOK, log), Header)
  /\ pc' = "loop"
  /\ UNCHANGED <<hw, env, timers, readings, durable, ghost>>

(* ------------------------------------------------------------------ *)
(* loop(), lines 80-144                                                *)
(* ------------------------------------------------------------------ *)
(* lines 83-84: capture the time and test the logging period *)
LoopStart ==
  /\ pc = "loop"
  /\ iterations < MaxIter
  /\ \E d \in Elapsed : clock' = Plus32(clock, d)
  /\ currentMillis' = clock'
  /\ pc' = IF Due(currentMillis', startMillis, ten_mins) THEN "log" ELSE "react"
  /\ iterations' = iterations + 1
  /\ ticked' = FALSE
  /\ reacted' = FALSE
  /\ effects' = <<>>
  /\ UNCHANGED <<hw, env, syncTime, startMillis, readings, sink, shown,
                 prevTick, pendingCooldown>>

(* lines 86-121: print one record *)
LogRecordSkipNaN ==
  /\ pc = "log"
  /\ \E p \in FSRLevels, t \in {dhtTemp}, h \in {dhtHum} :
       /\ clock' = clock
       /\ fsrLevel' = p
       /\ FSRValue' = fsrLevel'
       /\ \E stamp \in RTCStamps(rtcOK, clock') :
            log' = IF t = NaN \/ h = NaN THEN log
                   ELSE Println(logfile, log, Record(clock', stamp, t, h, FSRValue'))
  /\ pc' = "flushcheck"
  /\ ticked' = TRUE
  /\ prevTick' = <<currentMillis>>
  /\ pendingCooldown' = TRUE
  /\ UNCHANGED <<hw, motionLevel, timers, logfile, durable, shown, iterations,
                 reacted, effects>>

LogRecordStaleFSR ==
  /\ pc = "log"
  /\ \E p \in FSRLevels, t \in {dhtTemp}, h \in {dhtHum} :
       /\ clock' = clock
       /\ fsrLevel' = p
       /\ FSRValue' = FSRValue
       /\ \E stamp \in RTCStamps(rtcOK, clock') :
            log' = Println(logfile, log, Record(clock', stamp, t, h, FSRValue'))
  /\ pc' = "flushcheck"
  /\ ticked' = TRUE
  /\ prevTick' = <<currentMillis>>
  /\ pendingCooldown' = TRUE
  /\ UNCHANGED <<hw, motionLevel, timers, logfile, durable, shown, iterations,
                 reacted, effects>>

LogRecord ==
  /\ pc = "log"
  /\ \E p \in FSRLevels, t \in {dhtTemp}, h \in {dhtHum} :
       /\ clock' = clock
       /\ fsrLevel' = p
       /\ FSRValue' = fsrLevel'
       /\ \E stamp \in RTCStamps(rtcOK, clock') :
            log' = Println(logfile, log, Record(clock', stamp, t, h, FSRValue'))
  /\ pc' = "flushcheck"
  /\ ticked' = TRUE
  /\ prevTick' = <<currentMillis>>
  /\ pendingCooldown' = TRUE
  /\ UNCHANGED <<hw, motionLevel, timers, logfile, durable, shown, iterations,
                 reacted, effects>>

(* line 124: leave loop() when the flush is not due yet *)
FlushCheckFallThrough ==
  /\ pc = "flushcheck"
  /\ \E d \in Elapsed : clock' = Plus32(clock, d)
  /\ pc' = IF ~Due(clock', syncTime, SYNC_INTERVAL) THEN "react" ELSE "flush"
  /\ UNCHANGED <<hw, env, timers, readings, sink, shown, ghost>>

FlushCheckAlways ==
  /\ pc = "flushcheck"
  /\ \E d \in Elapsed : clock' = Plus32(clock, d)
  /\ pc' = "flush"
  /\ UNCHANGED <<hw, env, timers, readings, sink, shown, ghost>>

FlushCheck ==
  /\ pc = "flushcheck"
  /\ \E d \in Elapsed : clock' = Plus32(clock, d)
  /\ pc' = IF ~Due(clock', syncTime, SYNC_INTERVAL) THEN "loop" ELSE "flush"
  /\ UNCHANGED <<hw, env, timers, readings, sink, shown, ghost>>

(* lines 125-126: syncTime = millis(); logfile.flush() *)
FlushSyncOnly ==
  /\ pc = "flush"
  /\ clock' = clock
  /\ syncTime' = clock'
  /\ pc' = "restart"
  /\ UNCHANGED <<hw, env, startMillis, currentMillis, readings, sink,
                 shown, ghost>>

Flush ==
  /\ pc = "flush"
  /\ clock' = clock
  /\ syncTime' = clock'
  /\ durable' = Len(log)
  /\ pc' = "restart"
  /\ UNCHANGED <<hw, env, startMillis, currentMillis, readings, logfile, log,
                 shown, ghost>>

(* lines 129-130: startMillis = currentMillis; delay(2000) *)
RestartFromNow ==
  /\ pc = "restart"
  /\ clock' = Plus32(clock, CooldownDelay)
  /\ startMillis' = clock'
  /\ pendingCooldown' = FALSE
  /\ pc' = "react"
  /\ UNCHANGED <<hw, env, syncTime, currentMillis, readings, sink, shown,
                 iterations, ticked, reacted, effects, prevTick>>

Restart ==
  /\ pc = "restart"
  /\ startMillis' = currentMillis
  /\ clock' = Plus32(clock, CooldownDelay)
  /\ pendingCooldown' = FALSE
  /\ pc' = "react"
  /\ UNCHANGED <<hw, env, syncTime, currentMillis, readings, sink, shown,
                 iterations, ticked, reacted, effects, prevTick>>

(* lines 134-142: the reactive check *)
React ==
  /\ pc = "react"
  /\ \E p \in FSRLevels, m \in {LOW, HIGH} :
       /\ fsrLevel' = p
       /\ motionLevel' = IF p <= FSR_empty_bowl THEN motionLevel ELSE m
  /\ FSRValue' = fsrLevel'
  /\ LET e == SelectEffect(FSRValue', motionLevel')
     IN  pc' = IF e = "alert" THEN "refill_on"
               ELSE IF e = "presence" THEN "white_on"
               ELSE "loop"
  /\ reacted' = TRUE
  /\ UNCHANGED <<hw, clock, timers, sink, shown, iterations, ticked, effects,
                 prevTick, pendingCooldown>>

(* RefillJug(), lines 191-199 *)
RefillOn ==
  /\ pc = "refill_on"
  /\ shown' = "red"
  /\ clock' = Plus32(clock, BlinkDelay)
  /\ effects' = Append(effects, "alert")
  /\ pc' = "refill_off"
  /\ UNCHANGED <<hw, env, timers, readings, sink, iterations, ticked, reacted,
                 prevTick, pendingCooldown>>

RefillOff ==
  /\ pc = "refill_off"
  /\ shown' = "off"
  /\ clock' = Plus32(clock, BlinkDelay)
  /\ pc' = "loop"
  /\ UNCHANGED <<hw, env, timers, readings, sink, ghost>>

(* WhiteLight(), lines 202-209 *)
WhiteOnPolling ==
  /\ pc = "white_on"
  /\ shown' = "white"
  /\ \E m \in {LOW, HIGH} :
       /\ motionLevel' = m
       /\ clock' = IF m = HIGH THEN Plus32(clock, WhiteDelay) ELSE clock
  /\ effects' = Append(effects, "presence")
  /\ pc' = "white_off"
  /\ UNCHANGED <<hw, fsrLevel, timers, readings, sink, iterations, ticked, reacted,
                 prevTick, pendingCooldown>>

WhiteOn ==
  /\ pc = "white_on"
  /\ shown' = "white"
  /\ clock' = Plus32(clock, WhiteDelay)
  /\ effects' = Append(effects, "presence")
  /\ pc' = "white_off"
  /\ UNCHANGED <<hw, env, timers, readings, sink, iterations, ticked, reacted,
                 prevTick, pendingCooldown>>

WhiteOff ==
  /\ pc = "white_off"
  /\ shown' = "off"
  /\ pc' = "loop"
  /\ UNCHANGED <<hw, env, clock, timers, readings, sink, ghost>>

Next ==
  \/ Setup
  \/ LoopStart
  \/ LogRecord
  \/ FlushCheck
  \/ Flush
  \/ Restart
  \/ React
  \/ RefillOn
  \/ RefillOff
  \/ WhiteOn
  \/ WhiteOff

Spec == Init /\ [][Next]_vars

NextFiles == Setup
SpecFiles == InitFiles /\ [][NextFiles]_vars

NextWrap ==
  \/ LoopStart
  \/ LogRecord
  \/ FlushCheck
  \/ Flush
  \/ Restart
  \/ React
  \/ RefillOn
  \/ RefillOff
  \/ WhiteOn
  \/ WhiteOff
SpecWrap == InitWrap /\ [][NextWrap]_vars


(* ------------------------------------------------------------------ *)
(* Helpers of the properties                                           *)
(* ------------------------------------------------------------------ *)
(* the value of a 32-bit quantity below 2^31 *)
ToInt(x) == x.hi * W16 + x.lo

Records == { i \in 1 .. Len(log) : log[i].kind = "record" }
Reactive == {"react", "refill_on", "refill_off", "white_on", "white_off"}
(* the places of loop(): each has a step that leaves it *)
LoopPositions == {"loop", "log", "flushcheck", "flush", "restart"} \cup Reactive

(* the header column a printed expression belongs to *)
ColumnOf(src) ==
  CASE src = "m" -> "millis"
    [] src = "now.unixtime()" -> "stamp"
    [] src = "now" -> "datetime"
    [] src = "tempValue" -> "temp_(C)"
    [] src = "humValue" -> "humidity%"
    [] src = "FSRValue" -> "fsr_reading"

(* ------------------------------------------------------------------ *)
(* C1: two consecutive logging ticks start at least the logging period *)
(* (600000 ms) apart, measured by the currentMillis each iteration     *)
(* captured at its start.                                              *)
(* ------------------------------------------------------------------ *)
C1_TickSpacing ==
  [][ (pc = "loop" /\ pc' = "log" /\ prevTick # <<>> /\ logfile # NoFile)
        => ToInt(Minus32(currentMillis', prevTick[1])) >= 600000 ]_vars

(* ------------------------------------------------------------------ *)
(* C2: in a logging tick, after the append, the log is flushed and     *)
(* syncTime reset exactly when the time since syncTime is at least     *)
(* 600000 ms; otherwise nothing is flushed and syncTime stays; no      *)
(* flush happens in an iteration that did not run the tick.            *)
(* ------------------------------------------------------------------ *)
C2_FlushIff ==
  [][ /\ (pc = "flushcheck") =>
           /\ (pc' = "flush") <=> (ToInt(Minus32(clock', syncTime)) >= 600000)
           /\ (pc' # "flush") => (pc' = "loop")
           /\ syncTime' = syncTime /\ durable' = durable
      /\ (pc = "flush") =>
           /\ ticked
           /\ syncTime' = clock' /\ durable' = Len(log) /\ log' = log
      /\ (pc # "flush") => (syncTime' = syncTime /\ durable' = durable) ]_vars

C2_Witness ==
  /\ pc = "loop" /\ ticked /\ pendingCooldown
  /\ durable > 0 /\ durable < Len(log)
  /\ ToInt(syncTime) > 0

(* ------------------------------------------------------------------ *)
(* C3: the reactive check selects the alert when the pressure reading  *)
(* is <= 940 whatever the motion pin says, the presence effect when    *)
(* the reading is > 940 and motion is HIGH, nothing otherwise; at most *)
(* one effect runs in an iteration.                                    *)
(* ------------------------------------------------------------------ *)
C3_EffectSelection ==
  /\ [][ (pc = "react") =>
           /\ (FSRValue' <= 940) => (pc' = "refill_on")
           /\ (FSRValue' > 940 /\ motionLevel' = HIGH) => (pc' = "white_on")
           /\ (FSRValue' > 940 /\ motionLevel' = LOW) => (pc' = "loop")
           /\ FSRValue' = fsrLevel' ]_vars
  /\ [](Len(effects) <= 1)
  /\ [](pc = "refill_off" => (effects = <<"alert">> /\ shown = "red"))
  /\ [](pc = "white_off" => (effects = <<"presence">> /\ shown = "white"))

C3_Witness ==
  /\ pc = "refill_off" /\ FSRValue = 940 /\ motionLevel = HIGH
  /\ effects = <<"alert">>

(* ------------------------------------------------------------------ *)
(* C4: a logging tick appends exactly one record also when the         *)
(* temperature read, the humidity read or both return the sentinel:    *)
(* the sentinel is written in its field, the pressure is still         *)
(* written, and the tick goes on to the flush check.                   *)
(* ------------------------------------------------------------------ *)
C4_RecordOnSensorFailure ==
  [][ (pc = "log") =>
        /\ pc' = "flushcheck"
        /\ (logfile # NoFile) =>
             /\ Len(log') = Len(log) + 1
             /\ SubSeq(log', 1, Len(log)) = log
             /\ log'[Len(log')].kind = "record"
             /\ Len(log'[Len(log')].body) = 6
             /\ log'[Len(log')].body[4].val = dhtTemp
             /\ log'[Len(log')].body[5].val = dhtHum
             /\ log'[Len(log')].body[6].val = fsrLevel' ]_vars

C4_Witness ==
  /\ pc = "flushcheck" /\ dhtTemp = NaN /\ dhtHum = NaN
  /\ Len(log) >= 2
  /\ log[Len(log)].kind = "record"
  /\ log[Len(log)].body[4].val = NaN /\ log[Len(log)].body[5].val = NaN
  /\ log[Len(log)].body[6].val = fsrLevel

(* ------------------------------------------------------------------ *)
(* C5: the log holds the column header exactly once, as its first      *)
(* line, followed by records only, for every startup outcome of the    *)
(* storage and of the clock.                                           *)
(* ------------------------------------------------------------------ *)
C5_HeaderThenRecords ==
  (pc # "setup" /\ logfile # NoFile) =>
     /\ Len(log) >= 1
     /\ log[1].kind = "header"
     /\ \A i \in 2 .. Len(log) : log[i].kind = "record"

(* ------------------------------------------------------------------ *)
(* C6: createFile opens the name with the smallest sequence number in  *)
(* 00..99 that does not exist yet (06 when 00..05 exist), never an     *)
(* existing name, and no file at all when all 100 names exist.         *)
(* ------------------------------------------------------------------ *)
C6_FirstUnusedName ==
  (pc # "setup" /\ sdOK) =>
     LET free == AllNames \ cardFiles
     IN  /\ (free = {}) => (logfile = NoFile /\ log = <<>>)
         /\ (free # {}) =>
              /\ logfile \in free
              /\ \A j \in free : logfile <= j
              /\ Len(log) >= 1
         /\ (cardFiles = 0 .. 5) => (logfile = 6)

C6_Witness ==
  /\ pc # "setup" /\ sdOK
  /\ cardFiles = 0 .. 5 /\ logfile = 6
  /\ Len(log) >= 1

(* ------------------------------------------------------------------ *)
(* C7: no reactive check or indicator effect runs after a tick's       *)
(* append until the flush and the 2000 ms cooldown have completed.     *)
(* ------------------------------------------------------------------ *)
C7_NoReactiveBeforeCooldown ==
  (pc \in Reactive) =>
     /\ ~pendingCooldown
     /\ ticked =>
          /\ startMillis = currentMillis
          /\ ToInt(Minus32(clock, currentMillis)) >= 2000
          /\ ToInt(Minus32(clock, syncTime)) >= 2000
          /\ durable = Len(log)

C7_Witness ==
  /\ pc = "react" /\ ticked /\ ~reacted
  /\ Records # {}
  /\ durable = Len(log)

(* ------------------------------------------------------------------ *)
(* C8: with the storage not initialised, all names taken or the clock  *)
(* not answering, the loop goes on: ticks fire on the cadence check,   *)
(* their appends and flushes change nothing on the handle that is not  *)
(* open, startMillis and syncTime are still updated, the reactive      *)
(* check selects as usual, and the loop never stops.                   *)
(* ------------------------------------------------------------------ *)
C8_DegradedKeepsRunning ==
  /\ [][ (logfile = NoFile \/ ~rtcOK) =>
           /\ (pc = "loop" /\ pc' # "loop") =>
                /\ (pc' = "log") <=>
                     (ToInt(Minus32(currentMillis', startMillis)) >= 600000)
                /\ (pc' # "log") => (pc' = "react")
           /\ (pc = "log") =>
                /\ pc' = "flushcheck"
                /\ (logfile = NoFile) => (log' = <<>>)
                /\ (logfile # NoFile) => (Len(log') = Len(log) + 1)
           /\ (pc = "flushcheck") => (pc' \in {"loop", "flush"})
           /\ (pc = "flush") =>
                /\ pc' = "restart" /\ syncTime' = clock'
                /\ (logfile = NoFile) => (durable' = 0)
           /\ (pc = "restart") => (pc' = "react" /\ startMillis' = currentMillis)
           /\ (pc = "react") =>
                pc' = IF FSRValue' <= 940 THEN "refill_on"
                      ELSE IF motionLevel' = HIGH THEN "white_on" ELSE "loop" ]_vars
  /\ []( (pc # "setup" /\ (logfile = NoFile \/ ~rtcOK)) => pc \in LoopPositions )

C8_Witness ==
  /\ logfile = NoFile /\ ~rtcOK
  /\ pc = "white_on" /\ ticked
  /\ startMillis = currentMillis /\ ToInt(startMillis) >= 600000
  /\ ToInt(syncTime) >= 600000

(* ------------------------------------------------------------------ *)
(* C9: every record has its fields in the order milliseconds, unix     *)
(* seconds, date-time, temperature, humidity, pressure, which is the   *)
(* order of the header's columns, and its pressure is the value read   *)
(* in that same tick.                                                  *)
(* ------------------------------------------------------------------ *)
C9_FieldOrder ==
  /\ []( \A i \in Records :
           /\ Len(log[i].body) = Len(Header.body)
           /\ [k \in 1 .. 6 |-> log[i].body[k].src] =
                <<"m", "now.unixtime()", "now", "tempValue", "humValue", "FSRValue">>
           /\ \A k \in 1 .. 6 : ColumnOf(log[i].body[k].src) = Header.body[k] )
  /\ [][ (pc = "log" /\ logfile # NoFile) =>
           /\ log'[Len(log')].body[1].val = clock'
           /\ log'[Len(log')].body[6].val = fsrLevel' ]_vars

C9_Witness ==
  /\ pc = "flushcheck" /\ Len(log) >= 3
  /\ log[Len(log)].kind = "record" /\ log[Len(log) - 1].kind = "record"
  /\ log[Len(log)].body[6].val # log[Len(log) - 1].body[6].val
  /\ log[Len(log)].body[6].val = fsrLevel

(* ------------------------------------------------------------------ *)
(* C10: every iteration without a logging tick runs the reactive       *)
(* check, and invokes the alert exactly once when the pressure reading *)
(* is <= 940 and not at all when it is above.                          *)
(* ------------------------------------------------------------------ *)
C10_AlertEachIteration ==
  (pc = "loop" /\ iterations > 0 /\ ~ticked) =>
     /\ reacted
     /\ FSRValue = fsrLevel
     /\ (FSRValue <= 940) <=> (effects = <<"alert">>)
     /\ (FSRValue > 940) => (effects \in {<<>>, <<"presence">>})

C10_Witness ==
  /\ pc = "loop" /\ ~ticked /\ reacted
  /\ iterations >= 2
  /\ FSRValue = 940 /\ effects = <<"alert">>

(* ------------------------------------------------------------------ *)
(* C11: after every iteration that appended a record, whether or not   *)
(* a flush was due in it, startMillis equals the currentMillis         *)
(* captured at the start of that iteration.                            *)
(* ------------------------------------------------------------------ *)
C11_TickResetsLastTick ==
  (pc = "loop" /\ ticked /\ logfile # NoFile) => startMillis = currentMillis

(* ------------------------------------------------------------------ *)
(* C12 as stated: an iteration that ran a logging tick runs neither    *)
(* the reactive check nor an indicator effect.                         *)
(* ------------------------------------------------------------------ *)
C12_NoReactiveInTickIteration ==
  ticked => (pc \notin Reactive /\ ~reacted /\ effects = <<>>)

(* ------------------------------------------------------------------ *)
(* C12, amended: an iteration that ran a logging tick runs the         *)
(* reactive check exactly when that tick flushed, and then only after  *)
(* the flush and the cooldown; a tick that returns at the flush check  *)
(* ends the iteration with no reactive check and no indicator effect.  *)
(* ------------------------------------------------------------------ *)
C12_ReactiveOnlyAfterFlushedTick ==
  /\ (ticked /\ (reacted \/ pc \in Reactive)) =>
        /\ ~pendingCooldown
        /\ ~Less32(syncTime, currentMillis)
        /\ startMillis = currentMillis
  /\ (pc = "loop" /\ ticked /\ Less32(syncTime, currentMillis)) =>
        (~reacted /\ effects = <<>>)
  /\ (pc = "loop" /\ ticked /\ ~Less32(syncTime, currentMillis)) => reacted

C12_Witness ==
  /\ pc = "refill_off" /\ ticked /\ effects = <<"alert">>
  /\ logfile # NoFile /\ log[Len(log)].kind = "record"

(* ------------------------------------------------------------------ *)
(* C13: an indicator effect, once started, runs its whole sequence     *)
(* (colour, hold, clear; a second hold for the alert) with no sensor   *)
(* read, no cadence check and no log append in between, and a tick     *)
(* that fell due during the effect fires in the first iteration that   *)
(* starts after it.                                                    *)
(* ------------------------------------------------------------------ *)
C13_EffectsAtomic ==
  [][ /\ (pc \in {"refill_on", "refill_off", "white_on", "white_off"}) =>
           /\ UNCHANGED <<fsrLevel, motionLevel, FSRValue, currentMillis,
                          startMillis, syncTime, log, durable, iterations>>
           /\ (pc = "refill_on") =>
                 /\ pc' = "refill_off" /\ shown' = "red"
                 /\ clock' = Plus32(clock, 500)
           /\ (pc = "refill_off") =>
                 /\ pc' = "loop" /\ shown' = "off" /\ effects' = <<"alert">>
                 /\ clock' = Plus32(clock, 500)
           /\ (pc = "white_on") =>
                 /\ pc' = "white_off" /\ shown' = "white"
                 /\ clock' = Plus32(clock, 10000)
           /\ (pc = "white_off") =>
                 /\ pc' = "loop" /\ shown' = "off" /\ effects' = <<"presence">>
                 /\ clock' = clock
      /\ (/\ pc = "loop" /\ effects # <<>>
          /\ ToInt(Minus32(clock, startMillis)) >= 600000) => pc' = "log"
    ]_vars

C13_Witness ==
  /\ pc = "loop" /\ effects = <<"alert">> /\ shown = "off"
  /\ ToInt(Minus32(currentMillis, startMillis)) < 600000
  /\ ToInt(Minus32(clock, startMillis)) >= 600000

(* ------------------------------------------------------------------ *)
(* C14: whenever an iteration has reset startMillis, every line        *)
(* appended to the log so far has been flushed.                        *)
(* ------------------------------------------------------------------ *)
C14_FlushedWhenLastTickReset ==
  (ticked /\ startMillis = currentMillis) => durable = Len(log)

C14_Witness ==
  /\ pc = "loop" /\ ticked /\ startMillis = currentMillis
  /\ Cardinality(Records) >= 3 /\ durable = Len(log)

(* ------------------------------------------------------------------ *)
(* C15: startMillis and syncTime change only in the flushing path of   *)
(* a tick, syncTime first and startMillis right after it in the same   *)
(* iteration; syncTime >= startMillis in every state; and while both   *)
(* are still 0 a tick always flushes.                                  *)
(* ------------------------------------------------------------------ *)
C15_TimersMoveTogether ==
  /\ [](/\ ToInt(syncTime) >= ToInt(startMillis)
        /\ (pc = "restart") => (syncTime = clock /\ ~Less32(syncTime, currentMillis))
        /\ (syncTime = U32(0)) => (startMillis = U32(0))
        /\ (startMillis = U32(0) /\ syncTime # U32(0)) => (pc = "restart"))
  /\ [][ /\ (syncTime' # syncTime) =>
              (pc = "flush" /\ pc' = "restart" /\ startMillis' = startMillis)
         /\ (startMillis' # startMillis) =>
              (pc = "restart" /\ syncTime' = syncTime)
         /\ (pc = "restart") => startMillis' = currentMillis
         /\ (pc = "flushcheck" /\ syncTime = U32(0)) => pc' = "flush"
       ]_vars

C15_Witness ==
  /\ pc = "loop" /\ iterations >= 1 /\ prevTick = <<startMillis>>
  /\ ToInt(startMillis) > 0
  /\ ToInt(syncTime) > ToInt(startMillis)

(* Position of a counter value relative to the wrap: values in the     *)
(* upper half of the range are read as the time still to go before the *)
(* counter returns to 0.  Every time of a run that begins at InitWrap  *)
(* lies within 2^31 ms of the wrap, so differences of Rel are the true *)
(* elapsed times.                                                      *)
Rel(x) == IF x.hi >= W16 \div 2 THEN (x.hi - W16) * W16 + x.lo ELSE ToInt(x)

(* ------------------------------------------------------------------ *)
(* C16: across the wrap of the millisecond counter a tick fires        *)
(* exactly when the true time since startMillis is at least ten_mins,  *)
(* and a flush exactly when the true time since syncTime is at least   *)
(* SYNC_INTERVAL.                                                      *)
(* ------------------------------------------------------------------ *)
C16_CadenceAcrossWrap ==
  [][ /\ (pc = "loop" /\ pc' # "loop") =>
           ((pc' = "log") <=> (Rel(currentMillis') - Rel(startMillis) >= 600000))
      /\ (pc = "flushcheck" /\ pc' # "flushcheck") =>
           ((pc' = "flush") <=> (Rel(clock') - Rel(syncTime) >= 600000))
    ]_vars

C16_Witness ==
  /\ pc = "flush"
  /\ Less32(currentMillis, startMillis)
  /\ Less32(clock, syncTime)

=============================================================================
